---- MODULE Spec2Model ----
(***************************************************************************)
(* dailylog-mcp: the Day-Log entity model (internal/storage/models.go) and *)
(* the GitHub-backed storage provider                                      *)
(* (internal/providers/github_storage.go).                                 *)
(*                                                                         *)
(* The entry field models.go calls Mood (JSON "mood") is the field the     *)
(* provider and the specification call Status; MoodAverage is              *)
(* status_average.  The model keeps the names of models.go.                *)
(***************************************************************************)
EXTENDS Integers, Sequences, FiniteSets, TLC

VARIABLES
    store,   \* remote repository: path of a day -> NoFile or File(json)
    pc,      \* per caller: the remote call the caller is about to make
    loc,     \* per caller: the locals of the operation in progress
    ret,     \* the last call that returned, with its arguments and result
    now,     \* the reading of time.Now()
    calls,   \* the number of provider calls made so far
    day      \* a Day-Log held in memory (entity-model specification)

vars == <<store, pc, loc, ret, now, calls, day>>

(***************************************************************************)
(* Bounds                                                                  *)
(***************************************************************************)
MaxClock == 1          \* time.Now() ranges over 0..MaxClock
MaxEntries == 2        \* entries per Day-Log
MaxCalls == 2          \* provider calls in one behaviour

Clock == 0..MaxClock

(***************************************************************************)
(* Values                                                                  *)
(***************************************************************************)
\* a pointer or an optional value: <<>> is nil, <<v>> points to v
Nil == <<>>
Ptr(v) == <<v>>

\* a time.Time: the calendar day, counted in days with day 1 = Monday
\* 2025-09-29, and the time of day (0 is midnight)
Date(d, t) == [day |-> d, tod |-> t]

\* a string that is searched in: the sequence of its characters
ToLowerChar(c) == IF c = "A" THEN "a" ELSE IF c = "B" THEN "b" ELSE c
ToLower(str) == [i \in 1..Len(str) |-> ToLowerChar(str[i])]
Contains(str, sub) ==
    \E i \in 0..(Len(str) - Len(sub)) : SubSeq(str, i + 1, i + Len(sub)) = sub

\* float64 quotient of two small integers, kept exact as a reduced fraction
RECURSIVE GCD(_, _)
GCD(a, b) == IF b = 0 THEN a ELSE GCD(b, a % b)

Quot(total, count) ==
    LET g == GCD(total, count) IN <<total \div g, count \div g>>

Zero == <<0, 1>>

(***************************************************************************)
(* models.go: DayLog and its mutators                                      *)
(***************************************************************************)
RECURSIVE MoodTotal(_)
MoodTotal(es) ==
    IF es = <<>> THEN 0
    ELSE (IF Head(es).Mood > 0 THEN Head(es).Mood ELSE 0) + MoodTotal(Tail(es))

RECURSIVE MoodCount(_)
MoodCount(es) ==
    IF es = <<>> THEN 0
    ELSE (IF Head(es).Mood > 0 THEN 1 ELSE 0) + MoodCount(Tail(es))

calculateMoodAverage(d) ==
    IF MoodCount(d.Entries) > 0
    THEN [d EXCEPT !.MoodAverage = Quot(MoodTotal(d.Entries), MoodCount(d.Entries))]
    ELSE [d EXCEPT !.MoodAverage = Zero]

\* faulty variant of FirstIndex: the last entry with the given id is taken
FirstIndex_Last(es, id) ==
    IF \E i \in 1..Len(es) : es[i].ID = id
    THEN CHOOSE i \in 1..Len(es) :
            /\ es[i].ID = id
            /\ \A j \in (i + 1)..Len(es) : es[j].ID # id
    ELSE 0

\* index of the first entry with the given id, 0 when there is none
FirstIndex(es, id) ==
    IF \E i \in 1..Len(es) : es[i].ID = id
    THEN CHOOSE i \in 1..Len(es) :
            /\ es[i].ID = id
            /\ \A j \in 1..(i - 1) : es[j].ID # id
    ELSE 0

\* faulty variant of AddEntry: total_entries is not recounted
AddEntry_StaleCount(d, entry, t) ==
    calculateMoodAverage(
        [d EXCEPT !.Entries = Append(d.Entries, entry), !.UpdatedAt = t])

AddEntry(d, entry, t) ==
    LET es == Append(d.Entries, entry) IN
    calculateMoodAverage(
        [d EXCEPT !.Entries = es, !.TotalEntries = Len(es), !.UpdatedAt = t])

\* faulty variant of UpdateEntry: the average is not recomputed
UpdateEntry_NoRecalc(d, id, updatedEntry, t) ==
    LET i == FirstIndex(d.Entries, id) IN
    IF i # 0
    THEN [d |-> [d EXCEPT !.Entries[i] = updatedEntry, !.UpdatedAt = t],
          ok |-> TRUE]
    ELSE [d |-> d, ok |-> FALSE]

\* the Day-Log after UpdateEntry and the value UpdateEntry returns
UpdateEntry(d, id, updatedEntry, t) ==
    LET i == FirstIndex(d.Entries, id) IN
    IF i # 0
    THEN [d |-> calculateMoodAverage(
                    [d EXCEPT !.Entries[i] = updatedEntry, !.UpdatedAt = t]),
          ok |-> TRUE]
    ELSE [d |-> d, ok |-> FALSE]

\* faulty variant of RemoveEntry: updated_at is set before the search
RemoveEntry_TouchOnMiss(d, id, t) ==
    LET i == FirstIndex(d.Entries, id) IN
    IF i # 0
    THEN LET es == SubSeq(d.Entries, 1, i - 1) \o
                   SubSeq(d.Entries, i + 1, Len(d.Entries)) IN
         [d |-> calculateMoodAverage(
                    [d EXCEPT !.Entries = es, !.TotalEntries = Len(es),
                              !.UpdatedAt = t]),
          ok |-> TRUE]
    ELSE [d |-> [d EXCEPT !.UpdatedAt = t], ok |-> FALSE]

\* the Day-Log after RemoveEntry and the value RemoveEntry returns
RemoveEntry(d, id, t) ==
    LET i == FirstIndex(d.Entries, id) IN
    IF i # 0
    THEN LET es == SubSeq(d.Entries, 1, i - 1) \o
                   SubSeq(d.Entries, i + 1, Len(d.Entries)) IN
         [d |-> calculateMoodAverage(
                    [d EXCEPT !.Entries = es, !.TotalEntries = Len(es),
                              !.UpdatedAt = t]),
          ok |-> TRUE]
    ELSE [d |-> d, ok |-> FALSE]

\* encoding/json with the struct tags of models.go: a key tagged omitempty
\* is left out when the field holds the empty value of its type
OmitEmpty(key, val, empty) == IF val = empty THEN <<>> ELSE (key :> val)

\* faulty variant of EntryToJSON: duration tagged omitempty on a plain int,
\* so that a duration of 0 is left out
EntryToJSON_OmitZeroDuration(e) ==
    [id |-> e.ID, timestamp |-> e.Timestamp, type |-> e.Type,
     title |-> e.Title, description |-> e.Description]
    @@ OmitEmpty("tags", e.Tags, <<>>)
    @@ OmitEmpty("mood", e.Mood, 0)
    @@ OmitEmpty("priority", e.Priority, 0)
    @@ (IF e.Duration = Nil \/ e.Duration = Ptr(0) THEN <<>>
        ELSE ("duration" :> e.Duration[1]))
    @@ OmitEmpty("location", e.Location, "")
    @@ OmitEmpty("metadata", e.Metadata, <<>>)

\* DailyLogEntry -> JSON object; Duration is a pointer, left out only when nil
EntryToJSON(e) ==
    [id |-> e.ID, timestamp |-> e.Timestamp, type |-> e.Type,
     title |-> e.Title, description |-> e.Description]
    @@ OmitEmpty("tags", e.Tags, <<>>)
    @@ OmitEmpty("mood", e.Mood, 0)
    @@ OmitEmpty("priority", e.Priority, 0)
    @@ (IF e.Duration = Nil THEN <<>> ELSE ("duration" :> e.Duration[1]))
    @@ OmitEmpty("location", e.Location, "")
    @@ OmitEmpty("metadata", e.Metadata, <<>>)

\* a key that is absent leaves the field at the zero value of its type
Field(j, key, zero) == IF key \in DOMAIN j THEN j[key] ELSE zero

EntryFromJSON(j) ==
    [ID |-> j.id, Timestamp |-> j.timestamp, Type |-> j.type,
     Title |-> j.title, Description |-> j.description,
     Tags |-> Field(j, "tags", <<>>),
     Mood |-> Field(j, "mood", 0),
     Priority |-> Field(j, "priority", 0),
     Duration |-> IF "duration" \in DOMAIN j THEN Ptr(j.duration) ELSE Nil,
     Location |-> Field(j, "location", ""),
     Metadata |-> Field(j, "metadata", <<>>)]

ToJSON(d) ==
    [date |-> d.Date,
     entries |-> [i \in 1..Len(d.Entries) |-> EntryToJSON(d.Entries[i])],
     total_entries |-> d.TotalEntries,
     created_at |-> d.CreatedAt, updated_at |-> d.UpdatedAt]
    @@ OmitEmpty("day_summary", d.DaySummary, "")
    @@ OmitEmpty("mood_average", d.MoodAverage, Zero)

FromJSON(j) ==
    [Date |-> j.date,
     Entries |-> [i \in 1..Len(j.entries) |-> EntryFromJSON(j.entries[i])],
     DaySummary |-> Field(j, "day_summary", ""),
     MoodAverage |-> Field(j, "mood_average", Zero),
     TotalEntries |-> j.total_entries,
     CreatedAt |-> j.created_at, UpdatedAt |-> j.updated_at]

(***************************************************************************)
(* interface.go: the errors                                                *)
(***************************************************************************)
NoError == [kind |-> "nil"]
ValidationError(field) == [kind |-> "ValidationError", Field |-> field]
StorageError(operation, cause) ==
    [kind |-> "StorageError", Operation |-> operation, Cause |-> cause]
NotFoundError(resource, id) ==
    [kind |-> "NotFoundError", Resource |-> resource, ID |-> id]
NotImplemented == [kind |-> "error"]

(***************************************************************************)
(* The remote repository, as the provider uses it through the GitHub       *)
(* contents API: one file per day; the SHA of a file is the hash of its    *)
(* content, so it is modelled by the content itself.                       *)
(***************************************************************************)
Procs == {"p1", "p2"}
Dates == {1, 2}

NoFile == <<>>
File(content) == <<content>>
SHA(file) == file[1]

\* the file of a date is named by its path; the repository is indexed by the
\* calendar day the path stands for (FormatDayFilePath gives its text)
getDayFilePath(date) == date.day

\* time.Time.Date(): the year, month and day of the month of day x, where
\* day 1 is 2025-09-29, which is day 20360 of the Unix epoch
UnixDay(x) == x - 1 + 20360

Civil(x) ==
    LET z == UnixDay(x) + 719468
        era == z \div 146097
        doe == z - era * 146097
        yoe == (doe - doe \div 1460 + doe \div 36524 - doe \div 146096) \div 365
        doy == doe - (365 * yoe + yoe \div 4 - yoe \div 100)
        mp == (5 * doy + 2) \div 153
        m == IF mp < 10 THEN mp + 3 ELSE mp - 9 IN
    [year |-> yoe + era * 400 + (IF m <= 2 THEN 1 ELSE 0),
     month |-> m,
     day |-> doy - (153 * mp + 2) \div 5 + 1]

DigitChars == <<"0", "1", "2", "3", "4", "5", "6", "7", "8", "9">>

\* the decimal digits of n >= 0
RECURSIVE Decimal(_)
Decimal(n) ==
    IF n < 10 THEN <<DigitChars[n + 1]>>
    ELSE Append(Decimal(n \div 10), DigitChars[(n % 10) + 1])

\* faulty variant of FormatInt: no zeros are put in front
FormatInt_NoZeros(n, width) == Decimal(n)

\* time.Format of a number of the layout: at least width digits, zeros in front
RECURSIVE FormatInt(_, _)
FormatInt(n, width) ==
    IF Len(Decimal(n)) >= width THEN Decimal(n)
    ELSE <<"0">> \o FormatInt(n, width - 1)

\* path.Join: the elements that are not empty, with "/" between them
RECURSIVE Join(_)
Join(elems) ==
    IF elems = <<>> THEN <<>>
    ELSE IF Head(elems) = <<>> THEN Join(Tail(elems))
    ELSE IF Join(Tail(elems)) = <<>> THEN Head(elems)
    ELSE Head(elems) \o <<"/">> \o Join(Tail(elems))

\* the text of the path of a date: basePath/2006/01/2006-01-02.json
FormatDayFilePath(basePath, date) ==
    LET c == Civil(date.day)
        year == FormatInt(c.year, 4)
        month == FormatInt(c.month, 2) IN
    Join(<<basePath, year, month,
           year \o <<"-">> \o month \o <<"-">> \o FormatInt(c.day, 2)
                \o <<".", "j", "s", "o", "n">>>>)

\* Repositories.GetContents: the file, a 404, or a failure of the call
GetContents(st, path, fail) ==
    IF fail THEN [err |-> "failed"]
    ELSE IF st[path] = NoFile THEN [err |-> "404"]
    ELSE [err |-> "", Content |-> st[path][1], SHA |-> SHA(st[path])]

\* Repositories.CreateFile with the SHA option: the error it returns.  The
\* write is accepted when the file is absent and no SHA is given, or when the
\* SHA given is that of the file; otherwise the repository rejects it.
CreateFile(st, path, sha, fail) ==
    IF fail THEN "failed"
    ELSE IF \/ st[path] = NoFile /\ sha = Nil
            \/ st[path] # NoFile /\ sha = Ptr(SHA(st[path]))
         THEN ""
         ELSE "conflict"

\* Repositories.DeleteFile with the SHA option: the error it returns
DeleteFile(st, path, sha, fail) ==
    IF fail THEN "failed"
    ELSE IF st[path] # NoFile /\ sha = SHA(st[path]) THEN ""
         ELSE "conflict"

(***************************************************************************)
(* github_storage.go: the provider                                         *)
(***************************************************************************)
\* faulty variant of GetDay: a missing file is reported as NotFoundError
GetDay_NotFound(date, resp, t) ==
    IF resp.err # ""
    THEN IF resp.err = "404"
         THEN [err |-> NotFoundError("day log", date.day),
               dayLog |-> [Date |-> date, Entries |-> <<>>, DaySummary |-> "",
                           MoodAverage |-> Zero, TotalEntries |-> 0,
                           CreatedAt |-> t, UpdatedAt |-> t]]
         ELSE [err |-> StorageError("GetDay", resp.err)]
    ELSE [err |-> NoError, dayLog |-> FromJSON(resp.Content)]

\* GetDay, from the response of GetContents and the reading of the clock
GetDay(date, resp, t) ==
    IF resp.err # ""
    THEN IF resp.err = "404"
         THEN [err |-> NoError,
               dayLog |-> [Date |-> date, Entries |-> <<>>, DaySummary |-> "",
                           MoodAverage |-> Zero, TotalEntries |-> 0,
                           CreatedAt |-> t, UpdatedAt |-> t]]
         ELSE [err |-> StorageError("GetDay", resp.err)]
    ELSE [err |-> NoError, dayLog |-> FromJSON(resp.Content)]

generateEntryID(t) == t

\* the entry CreateEntry builds from the request
NewEntry(req, t) ==
    [ID |-> generateEntryID(t), Timestamp |-> req.Date, Type |-> req.Type,
     Title |-> req.Title, Description |-> req.Description, Tags |-> req.Tags,
     Mood |-> IF req.Mood # Nil THEN req.Mood[1] ELSE 0,
     Priority |-> IF req.Priority # Nil THEN req.Priority[1] ELSE 0,
     Duration |-> req.Duration,
     Location |-> req.Location, Metadata |-> req.Metadata]

(***************************************************************************)
(* Entity-model specification: AddEntry, UpdateEntry and RemoveEntry       *)
(* applied in any order to one Day-Log held in memory.                     *)
(***************************************************************************)
DayIds == {1, 2}
DayMoods == {-1, 0, 4, 8}

NoDuration == Nil
NoTags == <<>>
NoMetadata == <<>>

DayEntry(id, mood) ==
    [ID |-> id, Timestamp |-> Date(1, 0), Type |-> "activity", Title |-> <<"t">>,
     Description |-> <<>>, Tags |-> NoTags, Mood |-> mood, Priority |-> 0,
     Duration |-> NoDuration, Location |-> "", Metadata |-> NoMetadata]

DayEntries == {DayEntry(id, m) : id \in DayIds, m \in DayMoods}

NoCall == [op |-> "none"]

IdleProcs == [p \in Procs |-> "idle"]
NoLocals == [p \in Procs |-> <<>>]
EmptyStore == [d \in Dates |-> NoFile]

InitDay ==
    /\ \E es \in {<<>>} \cup {<<e>> : e \in DayEntries}, avg \in {Zero, <<5, 1>>} :
         day = [Date |-> Date(1, 0), Entries |-> es, DaySummary |-> "",
                MoodAverage |-> avg, TotalEntries |-> Len(es),
                CreatedAt |-> 0, UpdatedAt |-> 0]
    /\ now = 0
    /\ calls = 0
    /\ ret = NoCall
    /\ store = EmptyStore
    /\ pc = IdleProcs
    /\ loc = NoLocals
    /\ calls = 0

\* time passes
Tick ==
    /\ now < MaxClock
    /\ now' = now + 1
    /\ UNCHANGED <<store, pc, loc, ret, calls, day>>

DayAddEntry(e) ==
    /\ Len(day.Entries) < MaxEntries
    /\ day' = AddEntry(day, e, now)
    /\ ret' = [op |-> "AddEntry", entry |-> e, ok |-> TRUE]
    /\ UNCHANGED <<store, pc, loc, now, calls>>

DayUpdateEntry(id, e) ==
    /\ day' = UpdateEntry(day, id, e, now).d
    /\ ret' = [op |-> "UpdateEntry", id |-> id, entry |-> e,
               ok |-> UpdateEntry(day, id, e, now).ok]
    /\ UNCHANGED <<store, pc, loc, now, calls>>

DayRemoveEntry(id) ==
    /\ day' = RemoveEntry(day, id, now).d
    /\ ret' = [op |-> "RemoveEntry", id |-> id,
               ok |-> RemoveEntry(day, id, now).ok]
    /\ UNCHANGED <<store, pc, loc, now, calls>>

NextDay ==
    \/ Tick
    \/ \E e \in DayEntries : DayAddEntry(e)
    \/ \E id \in DayIds, e \in DayEntries : DayUpdateEntry(id, e)
    \/ \E id \in DayIds : DayRemoveEntry(id)

SpecDay == InitDay /\ [][NextDay]_vars

(***************************************************************************)
(* Provider specification: callers p1 and p2 issue operations of the       *)
(* provider against one repository; an operation takes one step per remote *)
(* call, so the calls of concurrent operations interleave.                 *)
(***************************************************************************)
\* CreateLogEntryRequest values
Requests ==
    { [Date |-> Date(1, 0), Type |-> "activity", Title |-> <<"A", "b">>,
       Description |-> <<>>, Tags |-> <<>>, Mood |-> Nil, Priority |-> Nil,
       Duration |-> Nil, Location |-> "", Metadata |-> <<>>],
      [Date |-> Date(1, 1), Type |-> "mood", Title |-> <<"c">>,
       Description |-> <<"a", "B">>, Tags |-> <<"work">>, Mood |-> Ptr(8),
       Priority |-> Ptr(3), Duration |-> Ptr(0), Location |-> "home",
       Metadata |-> ("k" :> "v")] }

\* a request with no type, no title and a status above 10
InvalidRequests ==
    { [Date |-> Date(1, 0), Type |-> "", Title |-> <<>>, Description |-> <<>>,
       Tags |-> <<>>, Mood |-> Ptr(11), Priority |-> Nil, Duration |-> Nil,
       Location |-> "", Metadata |-> <<>>] }

\* Day-Logs a caller hands to SaveDay directly; the id of the entry is not
\* one generateEntryID gives
SavedEntry ==
    [ID |-> -2, Timestamp |-> Date(1, 1), Type |-> "summary", Title |-> <<"s">>,
     Description |-> <<"y">>, Tags |-> <<"work", "home">>, Mood |-> 0,
     Priority |-> 5, Duration |-> Ptr(0), Location |-> "", Metadata |-> ("k" :> "v")]

SaveDayInputs ==
    { [Date |-> Date(1, 1), Entries |-> <<SavedEntry>>, DaySummary |-> "mine",
       MoodAverage |-> <<7, 2>>, TotalEntries |-> 1, CreatedAt |-> 0, UpdatedAt |-> 1] }

WriteDates == {Date(1, 0)}
CallDates == {Date(1, 0), Date(2, 1)}
TargetTypes == {"day", "week"}
\* UpdateLogEntryRequest values: an id no entry has, and the id of the entry
\* of the earlier day
UpdateRequests == {[ID |-> 0, Title |-> <<"u">>], [ID |-> -1, Title |-> <<"u">>]}

\* the repository when the callers start: empty, or holding the file an
\* earlier CreateEntry (at clock reading -1) wrote for day 1
EarlierDay ==
    LET req == CHOOSE r \in Requests : r.Mood = Nil
        g == GetDay(req.Date, GetContents(EmptyStore, 1, FALSE), -1) IN
    AddEntry(g.dayLog, NewEntry(req, -1), -1)

InitStores == {EmptyStore, [EmptyStore EXCEPT ![1] = File(ToJSON(EarlierDay))]}

Init ==
    /\ store \in InitStores
    /\ pc = IdleProcs
    /\ loc = NoLocals
    /\ calls = 0
    /\ ret = NoCall
    /\ now = 0
    /\ day = <<>>

\* caller p makes a call
Call(p) ==
    /\ pc[p] = "idle"
    /\ calls < MaxCalls
    /\ calls' = calls + 1

Result(op, arg, err, val) == [op |-> op, arg |-> arg, err |-> err, val |-> val]

\* the call returns to its caller
Return(p, r) ==
    /\ ret' = r
    /\ pc' = [pc EXCEPT ![p] = "idle"]
    /\ loc' = [loc EXCEPT ![p] = <<>>]

\* SaveDay, lines 128-135: the SHA of the existing file, nil on any error
SaveDayToken(resp) == IF resp.err = "" THEN Ptr(resp.SHA) ELSE Nil

\* the operation goes on to SaveDay(dayLog); val is what it returns on success
\* and read is the file its GetDay fetched
CallSaveDay(p, op, arg, dayLog, val, read) ==
    /\ loc' = [loc EXCEPT ![p] = [op |-> op, arg |-> arg, dayLog |-> dayLog,
                                  val |-> val, read |-> read, sha |-> Nil,
                                  fetchErr |-> ""]]
    /\ pc' = [pc EXCEPT ![p] = "SaveDay_fetch"]
    /\ UNCHANGED <<store, ret>>

CreateEntry(p, req, fail) ==
    /\ Call(p)
    /\ LET path == getDayFilePath(req.Date)
           g == GetDay(req.Date, GetContents(store, path, fail), now) IN
       IF g.err # NoError
       THEN /\ Return(p, Result("CreateEntry", req, g.err, <<>>))
            /\ UNCHANGED store
       ELSE /\ Len(g.dayLog.Entries) < MaxEntries
            /\ LET entry == NewEntry(req, now) IN
               CallSaveDay(p, "CreateEntry", req, AddEntry(g.dayLog, entry, now),
                           entry, store[path])
    /\ UNCHANGED <<now, day>>

\* faulty variant of UpdateEntry: success is returned
UpdateEntryCall_Success(p, req) ==
    /\ Call(p)
    /\ Return(p, Result("UpdateEntry", req, NoError, <<>>))
    /\ UNCHANGED <<store, now, day>>

UpdateEntryCall(p, req) ==
    /\ Call(p)
    /\ Return(p, Result("UpdateEntry", req, NotImplemented, <<>>))
    /\ UNCHANGED <<store, now, day>>

\* faulty variant of DeleteEntry: the day is saved also when no entry was removed
DeleteEntry_SaveOnMiss(p, id, date, fail) ==
    /\ Call(p)
    /\ LET path == getDayFilePath(date)
           g == GetDay(date, GetContents(store, path, fail), now) IN
       IF g.err # NoError
       THEN /\ Return(p, Result("DeleteEntry", <<id, date>>, g.err, <<>>))
            /\ UNCHANGED store
       ELSE LET r == RemoveEntry(g.dayLog, id, now) IN
            CallSaveDay(p, "DeleteEntry", <<id, date>>, r.d, <<>>, store[path])
    /\ UNCHANGED <<now, day>>

DeleteEntry(p, id, date, fail) ==
    /\ Call(p)
    /\ LET path == getDayFilePath(date)
           g == GetDay(date, GetContents(store, path, fail), now) IN
       IF g.err # NoError
       THEN /\ Return(p, Result("DeleteEntry", <<id, date>>, g.err, <<>>))
            /\ UNCHANGED store
       ELSE LET r == RemoveEntry(g.dayLog, id, now) IN
            IF ~r.ok
            THEN /\ Return(p, Result("DeleteEntry", <<id, date>>,
                                     NotFoundError("log entry", id), <<>>))
                 /\ UNCHANGED store
            ELSE CallSaveDay(p, "DeleteEntry", <<id, date>>, r.d, <<>>, store[path])
    /\ UNCHANGED <<now, day>>

SaveSummary(p, summary, targetType, date, fail) ==
    /\ Call(p)
    /\ LET path == getDayFilePath(date)
           arg == <<summary, targetType, date>>
           g == GetDay(date, GetContents(store, path, fail), now) IN
       IF targetType = "day"
       THEN IF g.err # NoError
            THEN /\ Return(p, Result("SaveSummary", arg, g.err, <<>>))
                 /\ UNCHANGED store
            ELSE CallSaveDay(p, "SaveSummary", arg,
                             [g.dayLog EXCEPT !.DaySummary = summary], <<>>,
                             store[path])
       ELSE /\ ~fail
            /\ Return(p, Result("SaveSummary", arg, NoError, <<>>))
            /\ UNCHANGED store
    /\ UNCHANGED <<now, day>>

\* SaveDay called by a caller: its first remote call fetches the SHA
SaveDay(p, dayLog, fail) ==
    /\ Call(p)
    /\ LET resp == GetContents(store, getDayFilePath(dayLog.Date), fail) IN
       /\ loc' = [loc EXCEPT ![p] =
                    [op |-> "SaveDay", arg |-> dayLog, dayLog |-> dayLog,
                     val |-> <<>>, read |-> NoFile,
                     sha |-> SaveDayToken(resp), fetchErr |-> resp.err]]
       /\ pc' = [pc EXCEPT ![p] = "SaveDay_write"]
    /\ UNCHANGED <<store, ret, now, day>>

\* SaveDay called by CreateEntry, DeleteEntry or SaveSummary: fetch the SHA
SaveDayFetch(p, fail) ==
    /\ pc[p] = "SaveDay_fetch"
    /\ LET resp == GetContents(store, getDayFilePath(loc[p].dayLog.Date), fail) IN
       loc' = [loc EXCEPT ![p].sha = SaveDayToken(resp), ![p].fetchErr = resp.err]
    /\ pc' = [pc EXCEPT ![p] = "SaveDay_write"]
    /\ UNCHANGED <<store, ret, now, calls, day>>

\* faulty variant of SaveDayWrite: a rejected write is retried with a new SHA
SaveDayWrite_Retry(p, fail) ==
    /\ pc[p] = "SaveDay_write"
    /\ LET l == loc[p]
           path == getDayFilePath(l.dayLog.Date)
           err == CreateFile(store, path, l.sha, fail) IN
       IF err = ""
       THEN /\ store' = [store EXCEPT ![path] = File(ToJSON(l.dayLog))]
            /\ Return(p, Result(l.op, l.arg, NoError, l.val))
       ELSE /\ store' = store
            /\ pc' = [pc EXCEPT ![p] = "SaveDay_fetch"]
            /\ UNCHANGED <<loc, ret>>
    /\ UNCHANGED <<now, calls, day>>

\* faulty variant of SaveDayWrite: a Day-Log without entries is not kept,
\* its file is removed
SaveDayWrite_DropEmpty(p, fail) ==
    /\ pc[p] = "SaveDay_write"
    /\ LET l == loc[p]
           path == getDayFilePath(l.dayLog.Date)
           err == CreateFile(store, path, l.sha, fail) IN
       IF err = ""
       THEN /\ store' = [store EXCEPT ![path] = IF l.dayLog.Entries = <<>>
                                                THEN NoFile
                                                ELSE File(ToJSON(l.dayLog))]
            /\ Return(p, Result(l.op, l.arg, NoError, l.val))
       ELSE /\ store' = store
            /\ Return(p, Result(l.op, l.arg, StorageError("SaveDay", err), <<>>))
    /\ UNCHANGED <<now, calls, day>>

\* SaveDay, lines 143-161: the write with the SHA, and the return
SaveDayWrite(p, fail) ==
    /\ pc[p] = "SaveDay_write"
    /\ LET l == loc[p]
           path == getDayFilePath(l.dayLog.Date)
           err == CreateFile(store, path, l.sha, fail) IN
       IF err = ""
       THEN /\ store' = [store EXCEPT ![path] = File(ToJSON(l.dayLog))]
            /\ Return(p, Result(l.op, l.arg, NoError, l.val))
       ELSE /\ store' = store
            /\ Return(p, Result(l.op, l.arg, StorageError("SaveDay", err), <<>>))
    /\ UNCHANGED <<now, calls, day>>

DeleteDay(p, date, fail) ==
    /\ Call(p)
    /\ LET resp == GetContents(store, getDayFilePath(date), fail) IN
       IF resp.err # ""
       THEN /\ Return(p, Result("DeleteDay", date,
                                NotFoundError("day log", date.day), <<>>))
       ELSE /\ loc' = [loc EXCEPT ![p] = [op |-> "DeleteDay", arg |-> date,
                                          sha |-> resp.SHA]]
            /\ pc' = [pc EXCEPT ![p] = "DeleteDay_delete"]
            /\ ret' = ret
    /\ UNCHANGED <<store, now, day>>

\* faulty variant of DeleteDayDelete: success is returned and the file is kept
DeleteDayDelete_Keep(p, fail) ==
    /\ pc[p] = "DeleteDay_delete"
    /\ store' = store
    /\ Return(p, Result("DeleteDay", loc[p].arg, NoError, <<>>))
    /\ UNCHANGED <<now, calls, day>>

DeleteDayDelete(p, fail) ==
    /\ pc[p] = "DeleteDay_delete"
    /\ LET l == loc[p]
           path == getDayFilePath(l.arg)
           err == DeleteFile(store, path, l.sha, fail) IN
       IF err = ""
       THEN /\ store' = [store EXCEPT ![path] = NoFile]
            /\ Return(p, Result("DeleteDay", l.arg, NoError, <<>>))
       ELSE /\ store' = store
            /\ Return(p, Result("DeleteDay", l.arg, StorageError("DeleteDay", err), <<>>))
    /\ UNCHANGED <<now, calls, day>>

\* faulty variant of GetDayCall: the Day-Log made for a missing file is saved
GetDayCall_Persist(p, date, fail) ==
    /\ Call(p)
    /\ LET path == getDayFilePath(date)
           resp == GetContents(store, path, fail)
           g == GetDay(date, resp, now) IN
       /\ Return(p, Result("GetDay", date, g.err,
                           IF g.err = NoError THEN g.dayLog ELSE <<>>))
       /\ store' = IF resp.err = "404"
                   THEN [store EXCEPT ![path] = File(ToJSON(g.dayLog))]
                   ELSE store
    /\ UNCHANGED <<now, day>>

GetDayCall(p, date, fail) ==
    /\ Call(p)
    /\ LET g == GetDay(date, GetContents(store, getDayFilePath(date), fail), now) IN
       Return(p, Result("GetDay", date, g.err,
                        IF g.err = NoError THEN g.dayLog ELSE <<>>))
    /\ UNCHANGED <<store, now, day>>

\* the first entry of the day with the given id, or NotFoundError
GetEntry(id, g) ==
    IF g.err # NoError THEN [err |-> g.err, val |-> <<>>]
    ELSE LET i == FirstIndex(g.dayLog.Entries, id) IN
         IF i # 0 THEN [err |-> NoError, val |-> g.dayLog.Entries[i]]
         ELSE [err |-> NotFoundError("log entry", id), val |-> <<>>]

GetEntryCall(p, id, date, fail) ==
    /\ Call(p)
    /\ LET r == GetEntry(id, GetDay(date, GetContents(store, getDayFilePath(date),
                                                     fail), now)) IN
       Return(p, Result("GetEntry", <<id, date>>, r.err, r.val))
    /\ UNCHANGED <<store, now, day>>

(***************************************************************************)
(* Range reads.  A loop over the days of a range makes one GetDay call per *)
(* day; the calls on days no caller ever writes (every day outside Dates)  *)
(* find no file, add nothing to any result and are taken together with the *)
(* next call on a day of Dates.                                            *)
(***************************************************************************)
Min(S) == CHOOSE x \in S : \A y \in S : x <= y

\* d.Before(end) || d.Equal(end), d being day x at the time of day of start
InRange(x, tod, end) == x < end.day \/ (x = end.day /\ tod <= end.tod)

\* the days of Dates the loop of l has still to visit
Remaining(l) == {x \in Dates : x >= l.d /\ InRange(x, l.tod, l.end)}

\* time.Weekday of a day: 0 is Sunday
Weekday(x) == x % 7

\* faulty variant of WeekStart: Sunday is not taken as day 7 of the week
WeekStart_SundayFirst(date) ==
    Date(date.day - (Weekday(date.day) - 1), date.tod)

\* GetWeek, lines 352-358
WeekStart(date) ==
    LET weekday == IF Weekday(date.day) = 0 THEN 7 ELSE Weekday(date.day) IN
    Date(date.day - (weekday - 1), date.tod)
WeekEnd(date) == Date(WeekStart(date).day + 6, date.tod)

\* GetMonth, lines 383-384, for the months the model calls it with
MonthStart(year, month) ==
    IF <<year, month>> = <<2025, 9>> THEN Date(-27, 0) ELSE Date(3, 0)
MonthEnd(year, month) ==
    IF <<year, month>> = <<2025, 9>> THEN Date(2, 0) ELSE Date(33, 0)

\* faulty variant of SumTotalEntries: the days are counted
SumTotalEntries_CountDays(days) == Len(days)

RECURSIVE SumTotalEntries(_)
SumTotalEntries(days) ==
    IF days = <<>> THEN 0
    ELSE Head(days).TotalEntries + SumTotalEntries(Tail(days))

\* float64 arithmetic on the fractions; x/0 is +Inf <<1, 0>>, 0/0 is NaN <<0, 0>>
FAdd(a, b) == Quot(a[1] * b[2] + b[1] * a[2], a[2] * b[2])
FDiv(a, n) ==
    IF n = 0 THEN (IF a[1] = 0 THEN <<0, 0>> ELSE <<1, 0>>)
    ELSE Quot(a[1], a[2] * n)

RECURSIVE StatusSum(_)
StatusSum(days) ==
    IF days = <<>> THEN Zero
    ELSE IF Head(days).MoodAverage[1] > 0
         THEN FAdd(Head(days).MoodAverage, StatusSum(Tail(days)))
         ELSE StatusSum(Tail(days))

RECURSIVE StatusCount(_)
StatusCount(days) ==
    IF days = <<>> THEN 0
    ELSE (IF Head(days).MoodAverage[1] > 0 THEN 1 ELSE 0) + StatusCount(Tail(days))

\* faulty variant of GetStats: the status sum is divided by the number of days
GetStats_MeanOverAllDays(days) ==
    [total_entries |-> SumTotalEntries(days),
     total_days |-> Len(days),
     average_status |-> IF StatusCount(days) > 0
                        THEN FDiv(StatusSum(days), Len(days))
                        ELSE Zero,
     entries_per_day |-> FDiv(<<SumTotalEntries(days), 1>>, Len(days))]

\* GetStats, lines 498-521, from the days GetDateRange returned
GetStats(days) ==
    [total_entries |-> SumTotalEntries(days),
     total_days |-> Len(days),
     average_status |-> IF StatusCount(days) > 0
                        THEN FDiv(StatusSum(days), StatusCount(days))
                        ELSE Zero,
     entries_per_day |-> FDiv(<<SumTotalEntries(days), 1>>, Len(days))]

generateDaySummary(dayLog) ==
    IF Len(dayLog.Entries) = 0 THEN <<"No activities recorded for this day.">>
    ELSE <<"Day had activities with average status", dayLog.TotalEntries,
           dayLog.MoodAverage>>

WeeklyLog(date, days, t) ==
    [WeekStart |-> WeekStart(date), WeekEnd |-> WeekEnd(date), Days |-> days,
     TotalEntries |-> SumTotalEntries(days), CreatedAt |-> t, UpdatedAt |-> t]

MonthlyLog(ym, days, t) ==
    [Month |-> ym, Year |-> ym[1], Days |-> days,
     TotalEntries |-> SumTotalEntries(days), CreatedAt |-> t, UpdatedAt |-> t]

SummaryResponse(summary, type, date, stats, t) ==
    [Summary |-> summary, Type |-> type, Period |-> date.day, Stats |-> stats,
     CreatedAt |-> t]

\* what the caller of GetDateRange makes of the days it returned
RangeResult(l, days, t) ==
    CASE l.op = "GetDateRange" -> days
      [] l.op = "GetWeek" -> WeeklyLog(l.arg, days, t)
      [] l.op = "GetMonth" -> MonthlyLog(l.arg, days, t)
      [] l.op = "GetStats" -> GetStats(days)
      [] l.op = "GenerateSummary" ->
            IF l.arg.Type = "week"
            THEN SummaryResponse(<<"Week had activities across days",
                                   SumTotalEntries(days), Len(days)>>,
                                 "week", l.arg.Date,
                                 [total_entries |-> SumTotalEntries(days),
                                  total_days |-> Len(days)], t)
            ELSE SummaryResponse(<<"Month had activities across days",
                                   SumTotalEntries(days), Len(days)>>,
                                 "month", l.arg.Date,
                                 [total_entries |-> SumTotalEntries(days),
                                  total_days |-> Len(days)], t)

\* the loop of GetDateRange starts
CallGetDateRange(p, op, arg, start, end) ==
    /\ Call(p)
    /\ loc' = [loc EXCEPT ![p] = [op |-> op, arg |-> arg, d |-> start.day,
                                  tod |-> start.tod, end |-> end, days |-> <<>>,
                                  skipped |-> {}]]
    /\ pc' = [pc EXCEPT ![p] = "GetDateRange_loop"]
    /\ UNCHANGED <<store, ret, now, day>>

GetDateRange(p, start, end) ==
    CallGetDateRange(p, "GetDateRange", <<start, end>>, start, end)

GetWeek(p, date) ==
    CallGetDateRange(p, "GetWeek", date, WeekStart(date), WeekEnd(date))

GetMonth(p, year, month) ==
    CallGetDateRange(p, "GetMonth", <<year, month>>,
                     MonthStart(year, month), MonthEnd(year, month))

GetStatsCall(p, start, end) ==
    CallGetDateRange(p, "GetStats", <<start, end>>, start, end)

\* one iteration of the loop of GetDateRange, or its end; skipped holds the
\* days on which the loop went on after an error of GetDay
GetDateRangeLoop(p, fail) ==
    /\ pc[p] = "GetDateRange_loop"
    /\ LET l == loc[p] IN
       IF Remaining(l) = {}
       THEN /\ ~fail
            /\ Return(p, Result(l.op, l.arg, NoError, RangeResult(l, l.days, now)))
       ELSE LET x == Min(Remaining(l))
                g == GetDay(Date(x, l.tod), GetContents(store, x, fail), now)
                days == IF g.err = NoError /\ Len(g.dayLog.Entries) > 0
                        THEN Append(l.days, g.dayLog) ELSE l.days IN
            /\ loc' = [loc EXCEPT ![p].d = x + 1, ![p].days = days,
                                  ![p].skipped = IF g.err # NoError
                                                 THEN @ \cup {x} ELSE @]
            /\ UNCHANGED <<pc, ret>>
    /\ UNCHANGED <<store, now, calls, day>>

GenerateSummary(p, req, fail) ==
    IF req.Type = "day"
    THEN /\ Call(p)
         /\ LET g == GetDay(req.Date,
                            GetContents(store, getDayFilePath(req.Date), fail), now) IN
            IF g.err # NoError
            THEN Return(p, Result("GenerateSummary", req, g.err, <<>>))
            ELSE Return(p, Result("GenerateSummary", req, NoError,
                     SummaryResponse(generateDaySummary(g.dayLog), "day", req.Date,
                                     [total_entries |-> g.dayLog.TotalEntries,
                                      status_average |-> g.dayLog.MoodAverage], now)))
         /\ UNCHANGED <<store, now, day>>
    ELSE /\ ~fail
         /\ IF req.Type = "week"
            THEN CallGetDateRange(p, "GenerateSummary", req,
                                  WeekStart(req.Date), WeekEnd(req.Date))
            ELSE CallGetDateRange(p, "GenerateSummary", req,
                                  MonthStart(2025, 9), MonthEnd(2025, 9))

\* ListDays: one GetContents per day, the days that answer without error
ListDays(p, start, end) ==
    /\ Call(p)
    /\ loc' = [loc EXCEPT ![p] = [op |-> "ListDays", arg |-> <<start, end>>,
                                  d |-> start.day, tod |-> start.tod,
                                  end |-> end, dates |-> <<>>]]
    /\ pc' = [pc EXCEPT ![p] = "ListDays_loop"]
    /\ UNCHANGED <<store, ret, now, day>>

ListDaysLoop(p, fail) ==
    /\ pc[p] = "ListDays_loop"
    /\ LET l == loc[p] IN
       IF Remaining(l) = {}
       THEN /\ ~fail
            /\ Return(p, Result("ListDays", l.arg, NoError, l.dates))
       ELSE LET x == Min(Remaining(l))
                resp == GetContents(store, x, fail) IN
            /\ loc' = [loc EXCEPT ![p].d = x + 1,
                                  ![p].dates = IF resp.err = ""
                                               THEN Append(l.dates, Date(x, l.tod))
                                               ELSE l.dates]
            /\ UNCHANGED <<pc, ret>>
    /\ UNCHANGED <<store, now, calls, day>>

\* the date of the clock reading, and the date three months before it
Today == Date(2, 1)
ThreeMonthsAgo == Date(-90, 1)

\* faulty variant of matchesSearchCriteria: every requested tag is required
matchesSearchCriteria_AllTags(entry, req) ==
    /\ ~(req.Type # "" /\ entry.Type # req.Type)
    /\ ~(req.MoodMin # Nil /\ entry.Mood < req.MoodMin[1])
    /\ ~(req.MoodMax # Nil /\ entry.Mood > req.MoodMax[1])
    /\ req.SearchText # <<>> =>
          \/ Contains(ToLower(entry.Title), ToLower(req.SearchText))
          \/ Contains(ToLower(entry.Description), ToLower(req.SearchText))
    /\ Len(req.Tags) > 0 =>
          \A i \in 1..Len(req.Tags) : \E j \in 1..Len(entry.Tags) :
              entry.Tags[j] = req.Tags[i]

matchesSearchCriteria(entry, req) ==
    /\ ~(req.Type # "" /\ entry.Type # req.Type)
    /\ ~(req.MoodMin # Nil /\ entry.Mood < req.MoodMin[1])
    /\ ~(req.MoodMax # Nil /\ entry.Mood > req.MoodMax[1])
    /\ req.SearchText # <<>> =>
          \/ Contains(ToLower(entry.Title), ToLower(req.SearchText))
          \/ Contains(ToLower(entry.Description), ToLower(req.SearchText))
    /\ Len(req.Tags) > 0 =>
          \E i \in 1..Len(req.Tags), j \in 1..Len(entry.Tags) :
              entry.Tags[j] = req.Tags[i]

\* the inner loop of SearchLogs over the entries of one day: the response
\* after the day, and whether the limit made the search return
\* faulty variant of SearchDay: the search returns one match after the limit
RECURSIVE SearchDay_OverLimit(_, _, _)
SearchDay_OverLimit(es, req, resp) ==
    IF es = <<>> THEN [resp |-> resp, done |-> FALSE]
    ELSE IF matchesSearchCriteria(Head(es), req)
         THEN LET r == [resp EXCEPT !.Entries = Append(@, Head(es)),
                                    !.TotalCount = @ + 1] IN
              IF req.Limit > 0 /\ r.TotalCount > req.Limit
              THEN [resp |-> r, done |-> TRUE]
              ELSE SearchDay_OverLimit(Tail(es), req, r)
         ELSE SearchDay_OverLimit(Tail(es), req, resp)

RECURSIVE SearchDay(_, _, _)
SearchDay(es, req, resp) ==
    IF es = <<>> THEN [resp |-> resp, done |-> FALSE]
    ELSE IF matchesSearchCriteria(Head(es), req)
         THEN LET r == [resp EXCEPT !.Entries = Append(@, Head(es)),
                                    !.TotalCount = @ + 1] IN
              IF req.Limit > 0 /\ r.TotalCount >= req.Limit
              THEN [resp |-> r, done |-> TRUE]
              ELSE SearchDay(Tail(es), req, r)
         ELSE SearchDay(Tail(es), req, resp)

SearchLogs(p, req) ==
    /\ Call(p)
    /\ LET start == IF req.DateStart # Nil THEN req.DateStart[1] ELSE ThreeMonthsAgo
           end == IF req.DateEnd # Nil THEN req.DateEnd[1] ELSE Today IN
       loc' = [loc EXCEPT ![p] =
                 [op |-> "SearchLogs", arg |-> req, d |-> start.day,
                  tod |-> start.tod, end |-> end, skipped |-> {},
                  response |-> [Entries |-> <<>>, TotalCount |-> 0,
                                SearchQuery |-> req]]]
    /\ pc' = [pc EXCEPT ![p] = "SearchLogs_loop"]
    /\ UNCHANGED <<store, ret, now, day>>

\* faulty variant of SearchLogsLoop: a day that cannot be fetched ends the
\* search with the error
SearchLogsLoop_Abort(p, fail) ==
    /\ pc[p] = "SearchLogs_loop"
    /\ LET l == loc[p] IN
       IF Remaining(l) = {}
       THEN /\ ~fail
            /\ Return(p, Result("SearchLogs", l.arg, NoError, l.response))
       ELSE LET x == Min(Remaining(l))
                g == GetDay(Date(x, l.tod), GetContents(store, x, fail), now)
                r == SearchDay(g.dayLog.Entries, l.arg, l.response) IN
            IF g.err # NoError
            THEN Return(p, Result("SearchLogs", l.arg, g.err, <<>>))
            ELSE IF r.done
            THEN Return(p, Result("SearchLogs", l.arg, NoError, r.resp))
            ELSE /\ loc' = [loc EXCEPT ![p].d = x + 1, ![p].response = r.resp]
                 /\ UNCHANGED <<pc, ret>>
    /\ UNCHANGED <<store, now, calls, day>>

SearchLogsLoop(p, fail) ==
    /\ pc[p] = "SearchLogs_loop"
    /\ LET l == loc[p] IN
       IF Remaining(l) = {}
       THEN /\ ~fail
            /\ Return(p, Result("SearchLogs", l.arg, NoError, l.response))
       ELSE LET x == Min(Remaining(l))
                g == GetDay(Date(x, l.tod), GetContents(store, x, fail), now)
                r == IF g.err = NoError
                     THEN SearchDay(g.dayLog.Entries, l.arg, l.response)
                     ELSE [resp |-> l.response, done |-> FALSE] IN
            IF r.done
            THEN Return(p, Result("SearchLogs", l.arg, NoError, r.resp))
            ELSE /\ loc' = [loc EXCEPT ![p].d = x + 1, ![p].response = r.resp,
                                       ![p].skipped = IF g.err # NoError
                                                      THEN @ \cup {x} ELSE @]
                 /\ UNCHANGED <<pc, ret>>
    /\ UNCHANGED <<store, now, calls, day>>

\* the requests of the read operations
Ranges == {<<Date(1, 0), Date(2, 1)>>}
SummaryRequests == {[Type |-> t, Date |-> Date(1, 0)] : t \in {"day", "week", "month"}}
SearchRequests ==
    { [DateStart |-> Nil, DateEnd |-> Nil, Type |-> "", Tags |-> <<>>,
       MoodMin |-> Nil, MoodMax |-> Nil, SearchText |-> <<"a", "b">>, Limit |-> 1],
      [DateStart |-> Ptr(Date(1, 0)), DateEnd |-> Ptr(Date(2, 1)), Type |-> "mood",
       Tags |-> <<"home", "work">>, MoodMin |-> Ptr(8), MoodMax |-> Ptr(10),
       SearchText |-> <<>>, Limit |-> 0] }

\* the operations that may write, by caller p, CreateEntry with the requests
WriteCallWith(p, fail, requests) ==
    \/ \E req \in requests : CreateEntry(p, req, fail)
    \/ \E id \in Clock, date \in WriteDates : DeleteEntry(p, id, date, fail)
    \/ \E t \in TargetTypes, date \in WriteDates : SaveSummary(p, "sum", t, date, fail)
    \/ \E d \in SaveDayInputs : SaveDay(p, d, fail)
    \/ \E date \in CallDates : DeleteDay(p, date, fail)

WriteCall(p, fail) == WriteCallWith(p, fail, Requests \cup InvalidRequests)

\* the later remote calls of these operations
WriteStep(p, fail) ==
    \/ SaveDayFetch(p, fail)
    \/ SaveDayWrite(p, fail)
    \/ DeleteDayDelete(p, fail)

\* the reads of one day
PointRead(p, fail) ==
    \/ \E date \in CallDates : GetDayCall(p, date, fail)
    \/ \E id \in Clock, date \in CallDates : GetEntryCall(p, id, date, fail)

\* the reads of a range of days
RangeRead(p, fail) ==
    \/ \E req \in SummaryRequests : GenerateSummary(p, req, fail)
    \/ /\ ~fail
       /\ \/ \E r \in Ranges : GetDateRange(p, r[1], r[2])
          \/ \E r \in Ranges : GetStatsCall(p, r[1], r[2])
          \/ \E r \in Ranges : ListDays(p, r[1], r[2])
          \/ \E date \in CallDates : GetWeek(p, date)
          \/ GetMonth(p, 2025, 9)
          \/ \E req \in SearchRequests : SearchLogs(p, req)

RangeStep(p, fail) ==
    \/ GetDateRangeLoop(p, fail)
    \/ ListDaysLoop(p, fail)
    \/ SearchLogsLoop(p, fail)

\* two callers, each making writes and reads of one day
Next ==
    \/ Tick
    \/ \E p \in Procs, fail \in BOOLEAN :
        \/ WriteCall(p, fail)
        \/ WriteStep(p, fail)
        \/ PointRead(p, fail)
    \/ \E p \in Procs, req \in UpdateRequests : UpdateEntryCall(p, req)

Spec == Init /\ [][Next]_vars

\* a reader making every kind of read while a writer writes; the writer
\* makes requests that pass validation
Reader == "p1"
Writer == "p2"

NextRead ==
    \/ Tick
    \/ \E fail \in BOOLEAN :
        \/ PointRead(Reader, fail)
        \/ RangeRead(Reader, fail)
        \/ RangeStep(Reader, fail)
        \/ WriteCallWith(Writer, fail, Requests)
        \/ WriteStep(Writer, fail)

SpecRead == Init /\ [][NextRead]_vars

(***************************************************************************)
(* Query specification: one caller makes one SearchLogs, GetDateRange,     *)
(* GetWeek, GetMonth or GetStats call on a repository nobody writes.       *)
(***************************************************************************)
\* entries of the stored days
QueryEntry(id, type, title, description, tags, mood) ==
    [ID |-> id, Timestamp |-> Date(1, 0), Type |-> type, Title |-> title,
     Description |-> description, Tags |-> tags, Mood |-> mood, Priority |-> 0,
     Duration |-> Nil, Location |-> "", Metadata |-> <<>>]

QueryEntries ==
    << QueryEntry(-11, "activity", <<"A", "b">>, <<>>, <<"deployment">>, 8),
       QueryEntry(-12, "mood", <<"x">>, <<"a", "B">>, <<"work", "home">>, 3),
       QueryEntry(-13, "activity", <<"b", "a">>, <<>>, <<>>, 0),
       QueryEntry(-14, "activity", <<"A", "B", "x">>, <<>>, <<"home", "deployment">>, 10) >>

\* the Day-Log of day x after AddEntry of the entries es at clock reading -1
RECURSIVE QueryDay(_, _)
QueryDay(x, es) ==
    IF es = <<>>
    THEN GetDay(Date(x, 0), GetContents(EmptyStore, x, FALSE), -1).dayLog
    ELSE AddEntry(QueryDay(x, SubSeq(es, 1, Len(es) - 1)), es[Len(es)], -1)

\* day 1 holds the first two entries; day 2 the other two, the third alone
\* (a day whose status average is 0) or none
QueryFiles ==
    [x \in Dates |->
        IF x = 1
        THEN {NoFile, File(ToJSON(QueryDay(1, SubSeq(QueryEntries, 1, 2))))}
        ELSE {NoFile, File(ToJSON(QueryDay(2, <<>>))),
              File(ToJSON(QueryDay(2, SubSeq(QueryEntries, 3, 3)))),
              File(ToJSON(QueryDay(2, SubSeq(QueryEntries, 3, 4))))}]

QueryStores == {st \in [Dates -> UNION {QueryFiles[x] : x \in Dates}] :
                   \A x \in Dates : st[x] \in QueryFiles[x]}

\* the windows of the searches: none given, and given ones
QueryWindows == {<<Nil, Nil>>, <<Ptr(Date(1, 0)), Ptr(Date(2, 1))>>,
                 <<Ptr(Date(2, 0)), Ptr(Date(2, 0))>>, <<Nil, Ptr(Date(2, 0))>>}
QueryLimits == {0, 1, 3}

QueryRequests ==
    { [DateStart |-> w[1], DateEnd |-> w[2], Type |-> type, Tags |-> tags,
       MoodMin |-> min, MoodMax |-> max, SearchText |-> text, Limit |-> limit] :
         w \in QueryWindows, type \in {"", "activity"},
         tags \in {<<>>, <<"deployment", "work">>},
         min \in {Nil, Ptr(8)}, max \in {Nil, Ptr(9)},
         text \in {<<>>, <<"a", "B">>}, limit \in QueryLimits }

QueryRanges == {<<Date(1, 0), Date(2, 1)>>, <<Date(2, 0), Date(2, 0)>>,
                <<Date(1, 1), Date(1, 1)>>, <<Date(1, 1), Date(2, 0)>>}
WeekDates == {Date(x, t) : x \in -1..8, t \in {0, 1}}
Months == {<<2025, 9>>, <<2025, 10>>}

InitQuery ==
    /\ store \in QueryStores
    /\ pc = IdleProcs
    /\ loc = NoLocals
    /\ calls = MaxCalls - 1
    /\ ret = NoCall
    /\ now = 0
    /\ day = <<>>

NextQuery ==
    \/ \E req \in QueryRequests : SearchLogs(Reader, req)
    \/ \E r \in QueryRanges : GetDateRange(Reader, r[1], r[2])
    \/ \E r \in QueryRanges : GetStatsCall(Reader, r[1], r[2])
    \/ \E date \in WeekDates : GetWeek(Reader, date)
    \/ \E ym \in Months : GetMonth(Reader, ym[1], ym[2])
    \/ \E fail \in BOOLEAN : SearchLogsLoop(Reader, fail)
    \/ \E fail \in BOOLEAN : GetDateRangeLoop(Reader, fail)

SpecQuery == InitQuery /\ [][NextQuery]_vars

(***************************************************************************)
(* Path specification: two callers hold a timestamp each and compute the   *)
(* path of its file under the same base path.                              *)
(***************************************************************************)
\* the base path of the provider: the default and a configured one
BasePaths == {<<"d", "a", "i", "l", "y", "-", "l", "o", "g", "s">>, <<"l", "o", "g", "s">>}

\* 2025-09-29, 2025-09-30, 2025-10-01, 2025-10-09, 2025-10-10, 2025-12-31,
\* 2026-01-01, 2024-02-29, 2024-03-01, 1999-12-31, 2000-01-01, 0999-12-31,
\* 1000-01-01, 9999-12-31
PathDays == {1, 2, 3, 11, 12, 94, 95, -577, -576, -9403, -9402, -374645, -374644,
             2912537}
PathDates == {Date(x, t) : x \in PathDays, t \in {0, 1}}

InitPath ==
    /\ \E base \in BasePaths :
         loc \in [Procs -> {[op |-> "getDayFilePath", basePath |-> base,
                             arg |-> date, val |-> Nil] : date \in PathDates}]
    /\ pc = IdleProcs
    /\ store = EmptyStore
    /\ calls = 0
    /\ ret = NoCall
    /\ now = 0
    /\ day = <<>>

\* caller p computes the path of its timestamp
DayFilePath(p) ==
    /\ pc[p] = "idle"
    /\ pc' = [pc EXCEPT ![p] = "done"]
    /\ loc' = [loc EXCEPT ![p].val = FormatDayFilePath(loc[p].basePath, loc[p].arg)]
    /\ UNCHANGED <<store, ret, now, calls, day>>

NextPath == \E p \in Procs : DayFilePath(p)

SpecPath == InitPath /\ [][NextPath]_vars

(***************************************************************************)
(* Claims about the entity model                                           *)
(***************************************************************************)
DayOps == {"AddEntry", "UpdateEntry", "RemoveEntry"}

\* C3: starting from a Day-Log whose total_entries equals its number of
\* entries, total_entries equals the number of entries after each AddEntry,
\* UpdateEntry and RemoveEntry.
C3_TotalEntriesIsLen ==
    ret.op \in DayOps => day.TotalEntries = Len(day.Entries)

C3_Witness ==
    /\ ret.op = "RemoveEntry"
    /\ ret.ok
    /\ Len(day.Entries) = 1
    /\ day.TotalEntries = 1

\* the entries of es that have a status above 0
Rated(es) == {i \in 1..Len(es) : es[i].Mood > 0}

RECURSIVE SumOver(_, _)
SumOver(es, idx) ==
    IF idx = {} THEN 0
    ELSE LET i == CHOOSE i \in idx : TRUE IN es[i].Mood + SumOver(es, idx \ {i})

\* C4: after every AddEntry, UpdateEntry and RemoveEntry that changes the
\* Day-Log, status_average is the sum of the statuses above 0 divided by
\* their number, and 0 when no entry has a status above 0.
C4_StatusAverageIsMean ==
    (ret.op \in DayOps /\ ret.ok) =>
        LET n == Cardinality(Rated(day.Entries))
            s == SumOver(day.Entries, Rated(day.Entries)) IN
        /\ n = 0 => day.MoodAverage = <<0, 1>>
        /\ n > 0 => /\ day.MoodAverage[1] * n = s * day.MoodAverage[2]
                    /\ day.MoodAverage[2] > 0

\* statuses 8 and 4 give 6, reached through UpdateEntry
C4_Witness ==
    /\ ret.op = "UpdateEntry"
    /\ ret.ok
    /\ Len(day.Entries) = 2
    /\ day.Entries[1].Mood = 8
    /\ day.Entries[2].Mood = 4
    /\ day.MoodAverage = <<6, 1>>

\* C5: RemoveEntry with an id no entry carries returns false and leaves the
\* whole Day-Log (entries, total_entries, status_average, updated_at) as it was.
C5_RemoveMissingIsNoOp ==
    [][\A id \in DayIds :
          (DayRemoveEntry(id) /\ \A i \in 1..Len(day.Entries) : day.Entries[i].ID # id)
              => (ret'.ok = FALSE /\ day' = day)]_vars

\* a failed RemoveEntry on a non-empty Day-Log, at a time later than updated_at
C5_Witness ==
    /\ ret.op = "RemoveEntry"
    /\ ~ret.ok
    /\ Len(day.Entries) > 0
    /\ now > day.UpdatedAt

(***************************************************************************)
(* Claims about the provider                                               *)
(***************************************************************************)
\* the operations that read a day, change it in memory and save it
ReadModifyWrite == {"CreateEntry", "DeleteEntry", "SaveSummary"}

\* caller p makes the write of SaveDay in this step, and SaveDay returns
SaveDayReturns(p) == pc[p] = "SaveDay_write" /\ pc'[p] = "idle"

\* the Day-Log a GetDay call finds in repository st
Stored(st, date) == GetDay(date, GetContents(st, getDayFilePath(date), FALSE), 0)

\* C1: of two read-modify-write operations on one date that both read the
\* day before either writes, at most one returns success.  When the write
\* of p is made, the call that returned last is the other operation, it
\* succeeded, and the file is no longer the one p read: p is the loser and
\* does not return success.
C1_LoserIsRejected ==
    [][\A p \in Procs :
          (/\ SaveDayReturns(p)
           /\ loc[p].op \in ReadModifyWrite
           /\ ret.op \in ReadModifyWrite
           /\ ret.err = NoError
           /\ store[getDayFilePath(loc[p].dayLog.Date)] # loc[p].read)
              => ret'.err.kind = "StorageError"]_vars

\* the version the token of p stands for is the version stored now
TokenCurrent(p) ==
    LET file == store[getDayFilePath(loc[p].dayLog.Date)] IN
    IF loc[p].sha = Nil THEN file = NoFile
    ELSE file # NoFile /\ loc[p].sha = Ptr(SHA(file))

\* C2: the write of SaveDay carries the token SaveDay fetched itself (the
\* SHA stored at its fetch, none when it found no file); the write takes
\* effect only if the stored version still is that token; otherwise SaveDay
\* returns a StorageError after this one attempt and the file stays as it is.
C2_VersionedWrite ==
    [][\A p \in Procs :
          /\ (pc[p] # "SaveDay_write" /\ pc'[p] = "SaveDay_write") =>
                LET file == store[getDayFilePath(loc'[p].dayLog.Date)] IN
                \/ loc'[p].sha = Nil
                \/ file # NoFile /\ loc'[p].sha = Ptr(SHA(file))
          /\ (pc[p] = "SaveDay_write" /\ pc'[p] # "SaveDay_write") =>
                /\ pc'[p] = "idle"
                /\ store' # store => TokenCurrent(p)
                /\ ~TokenCurrent(p) =>
                      /\ store' = store
                      /\ ret'.err.kind = "StorageError"
                      /\ ret'.err.Operation = "SaveDay"]_vars

\* a SaveDay whose token went stale returned the conflict as a StorageError
C2_Witness ==
    /\ ret.op \in ReadModifyWrite \cup {"SaveDay"}
    /\ ret.err = StorageError("SaveDay", "conflict")
    /\ store[1] # NoFile
    /\ \A p \in Procs : pc[p] = "idle"

\* C6: GetDay on a date without a stored file returns, without error, a
\* Day-Log of that date with no entries and total_entries 0 (unless the
\* remote call itself fails); GetDay never returns a NotFoundError.
C6_MissingDayIsEmpty ==
    [][(calls' # calls /\ ret'.op = "GetDay") =>
          /\ ret'.err.kind # "NotFoundError"
          /\ (/\ store[getDayFilePath(ret'.arg)] = NoFile
              /\ ret'.err # StorageError("GetDay", "failed"))
                => /\ ret'.err = NoError
                   /\ ret'.val.Date = ret'.arg
                   /\ ret'.val.Entries = <<>>
                   /\ ret'.val.TotalEntries = 0]_vars

C6_Witness ==
    /\ ret.op = "GetDay"
    /\ ret.err = NoError
    /\ store[getDayFilePath(ret.arg)] = NoFile
    /\ ret.val.TotalEntries = 0

ReadOps == {"GetDay", "GetEntry", "SearchLogs", "GetDateRange", "GetWeek",
            "GetMonth", "GetStats", "ListDays", "GenerateSummary"}

\* a step of a read operation of the reader: a range read starts or
\* returns, its loop visits a day, or a read of one day is made
ReadOperation ==
    \/ pc'[Reader] # pc[Reader]
    \/ pc[Reader] # "idle" /\ loc'[Reader].d # loc[Reader].d
    \/ /\ calls' # calls
       /\ pc'[Writer] = pc[Writer]
       /\ ret'.op \in ReadOps

\* C7: GetDay, GetEntry, SearchLogs, GetDateRange, GetWeek, GetMonth,
\* GetStats, ListDays and GenerateSummary never create, change or delete a
\* stored file, whatever a writer does meanwhile; reading a date that was
\* never written does not make it exist.
C7_ReadsDoNotWrite ==
    [][ReadOperation => store' = store]_vars

\* a GetDay of day 2, which no caller writes, returned and day 2 has no file
C7_Witness ==
    /\ ret.op = "GetDay"
    /\ ret.err = NoError
    /\ ret.arg.day = 2
    /\ store[2] = NoFile
    /\ store[1] # NoFile

\* C8: after a successful CreateEntry the stored Day-Log of the date holds
\* the entries it held before, in order, followed by the new entry; the
\* entry returned is that entry, with the fields of the request and the
\* generated id; GetEntry with its id and date returns it.
C8_CreateAppends ==
    [][\A p \in Procs :
          (SaveDayReturns(p) /\ loc[p].op = "CreateEntry" /\ ret'.err = NoError) =>
              LET req == loc[p].arg
                  before == Stored(store, req.Date).dayLog.Entries
                  after == Stored(store', req.Date) IN
              /\ after.err = NoError
              /\ after.dayLog.Entries = Append(before, ret'.val)
              /\ ret'.val = NewEntry(req, ret'.val.ID)
              /\ GetEntry(ret'.val.ID, after) = [err |-> NoError, val |-> ret'.val]]_vars

\* C9: after a successful SaveDay of a Day-Log, GetDay of its date returns a
\* Day-Log equal to it in date, entries, day_summary, status_average,
\* total_entries, created_at and updated_at.
C9_SaveDayThenGetDay ==
    [][\A p \in Procs :
          (SaveDayReturns(p) /\ ret'.err = NoError) =>
              LET d == loc[p].dayLog
                  g == Stored(store', d.Date) IN
              /\ g.err = NoError
              /\ g.dayLog = d]_vars

\* a direct SaveDay replaced the file on day 1 by its Day-Log, which has an
\* entry with tags, metadata and a duration of 0
C9_Witness ==
    /\ ret.op = "SaveDay"
    /\ ret.err = NoError
    /\ store[1] # NoFile
    /\ Stored(store, ret.arg.Date).dayLog = ret.arg
    /\ Len(ret.arg.Entries) = 1
    /\ ret.arg.Entries[1].Duration = Ptr(0)

\* C10: no stored Day-Log holds two entries with the same id.
C10_UniqueIds ==
    \A x \in Dates :
        store[x] # NoFile =>
            LET es == FromJSON(store[x][1]).Entries IN
            \A i, j \in 1..Len(es) : i # j => es[i].ID # es[j].ID

\* caller p makes a call of operation op that goes on to a further remote call
Proceeds(p, op) == pc[p] = "idle" /\ pc'[p] # "idle" /\ loc'[p].op = op

\* a call of operation op is made and returns within the step
ReturnsAtOnce(op) == calls' # calls /\ pc' = pc /\ ret'.op = op

\* the request has a status outside 1..10, no title or no type
Invalid(req) ==
    \/ req.Mood # Nil /\ (req.Mood[1] < 1 \/ req.Mood[1] > 10)
    \/ req.Title = <<>>
    \/ req.Type = ""

\* C11: a CreateEntry request with a status outside 1..10, an empty title or
\* an empty type is rejected with a ValidationError at once: the call goes on
\* to no write and the repository is unchanged.
C11_InvalidRequestRejected ==
    [][\A p \in Procs :
          /\ Proceeds(p, "CreateEntry") => ~Invalid(loc'[p].arg)
          /\ (ReturnsAtOnce("CreateEntry") /\ Invalid(ret'.arg)) =>
                /\ ret'.err.kind = "ValidationError"
                /\ store' = store]_vars

\* the Day-Log stored for the date in repository st has an entry with the id
Carries(st, date, id) ==
    LET es == Stored(st, date).dayLog.Entries IN
    \E i \in 1..Len(es) : es[i].ID = id

\* C12: DeleteEntry with an id no entry of the date carries returns
\* NotFoundError{"log entry", id} (a StorageError when the read of the day
\* fails) and makes no write: the file of the date is unchanged, and a date
\* never written gets no file.
C12_DeleteMissingEntry ==
    [][\A p \in Procs :
          /\ Proceeds(p, "DeleteEntry") =>
                Carries(store, loc'[p].arg[2], loc'[p].arg[1])
          /\ (/\ ReturnsAtOnce("DeleteEntry")
              /\ ~Carries(store, ret'.arg[2], ret'.arg[1])
              /\ ret'.err # StorageError("GetDay", "failed"))
                => /\ ret'.err = NotFoundError("log entry", ret'.arg[1])
                   /\ store' = store]_vars

\* DeleteEntry with an unknown id on a never-written date returned
\* NotFoundError, and the date still has no file
C12_Witness ==
    /\ ret.op = "DeleteEntry"
    /\ ret.err = NotFoundError("log entry", ret.arg[1])
    /\ store[getDayFilePath(ret.arg[2])] = NoFile
    /\ calls = 1

\* C13: DeleteDay on a date without a file returns NotFoundError and changes
\* nothing; DeleteDay on a date with a file that is not modified between the
\* two remote calls of DeleteDay removes the file (unless the delete call
\* itself fails), and GetDay of the date then gives an empty Day-Log.
C13_DeleteDay ==
    [][\A p \in Procs :
          /\ Proceeds(p, "DeleteDay") => store[getDayFilePath(loc'[p].arg)] # NoFile
          /\ (ReturnsAtOnce("DeleteDay") /\ store[getDayFilePath(ret'.arg)] = NoFile) =>
                /\ ret'.err = NotFoundError("day log", ret'.arg.day)
                /\ store' = store
          /\ (pc[p] = "DeleteDay_delete" /\ pc'[p] = "idle") =>
                LET path == getDayFilePath(loc[p].arg) IN
                (/\ store[path] # NoFile
                 /\ SHA(store[path]) = loc[p].sha
                 /\ ret'.err # StorageError("DeleteDay", "failed"))
                   => /\ ret'.err = NoError
                      /\ store'[path] = NoFile
                      /\ Stored(store', loc[p].arg).err = NoError
                      /\ Stored(store', loc[p].arg).dayLog.Entries = <<>>
                      /\ Stored(store', loc[p].arg).dayLog.TotalEntries = 0]_vars

\* a DeleteDay removed the file the repository started with
C13_Witness ==
    /\ ret.op = "DeleteDay"
    /\ ret.err = NoError
    /\ store[getDayFilePath(ret.arg)] = NoFile
    /\ calls = 1

\* C14: a failure of a remote call other than not-found, during GetDay,
\* SaveDay, DeleteDay, CreateEntry, DeleteEntry, GetEntry or SaveSummary,
\* reaches the caller as a StorageError with the operation and the cause.
\* For the calls that return within the step the failing call is the one
\* made with fail = TRUE; for SaveDay the failure of its fetch is the local
\* err held until the write.
C14_FailuresAreStorageErrors ==
    [][\A p \in Procs :
          /\ (/\ ReturnsAtOnce("GetDay")
              /\ GetDayCall(p, ret'.arg, TRUE)) =>
                ret'.err = StorageError("GetDay", "failed")
          /\ (/\ ReturnsAtOnce("GetEntry")
              /\ GetEntryCall(p, ret'.arg[1], ret'.arg[2], TRUE)) =>
                ret'.err = StorageError("GetDay", "failed")
          /\ (/\ ReturnsAtOnce("CreateEntry")
              /\ CreateEntry(p, ret'.arg, TRUE)) =>
                ret'.err = StorageError("GetDay", "failed")
          /\ (/\ ReturnsAtOnce("DeleteEntry")
              /\ DeleteEntry(p, ret'.arg[1], ret'.arg[2], TRUE)) =>
                ret'.err = StorageError("GetDay", "failed")
          /\ (/\ ReturnsAtOnce("SaveSummary")
              /\ SaveSummary(p, ret'.arg[1], ret'.arg[2], ret'.arg[3], TRUE)) =>
                ret'.err = StorageError("GetDay", "failed")
          /\ (/\ ReturnsAtOnce("DeleteDay")
              /\ store[getDayFilePath(ret'.arg)] # NoFile) =>
                ret'.err = StorageError("DeleteDay", "failed")
          /\ (SaveDayReturns(p) /\ loc[p].fetchErr = "failed") =>
                ret'.err = StorageError("SaveDay", "failed")
          /\ (pc[p] = "SaveDay_write" /\ SaveDayWrite(p, TRUE)) =>
                ret'.err = StorageError("SaveDay", "failed")
          /\ (pc[p] = "DeleteDay_delete" /\ DeleteDayDelete(p, TRUE)) =>
                ret'.err = StorageError("DeleteDay", "failed")]_vars

(***************************************************************************)
(* Claims about the queries                                                *)
(***************************************************************************)
\* the SearchLogs call of the reader returns in this step
SearchReturns == pc[Reader] = "SearchLogs_loop" /\ pc'[Reader] = "idle"

\* text, letter case aside, is a part of field
IsPartOf(text, field) ==
    \E i \in 0..(Len(field) - Len(text)) :
        \A k \in 1..Len(text) : ToLowerChar(field[i + k]) = ToLowerChar(text[k])

\* the entry passes every filter the request specifies
Passes(entry, req) ==
    /\ req.Type # "" => entry.Type = req.Type
    /\ req.MoodMin # Nil => entry.Mood >= req.MoodMin[1]
    /\ req.MoodMax # Nil => entry.Mood <= req.MoodMax[1]
    /\ req.SearchText # <<>> =>
          IsPartOf(req.SearchText, entry.Title) \/ IsPartOf(req.SearchText, entry.Description)
    /\ req.Tags # <<>> =>
          {req.Tags[i] : i \in 1..Len(req.Tags)}
            \cap {entry.Tags[j] : j \in 1..Len(entry.Tags)} # {}

\* the days of the window of the request: those from its start, taken at the
\* time of day of the start, that are not after its end
WindowDays(req) ==
    LET start == IF req.DateStart # Nil THEN req.DateStart[1] ELSE ThreeMonthsAgo
        end == IF req.DateEnd # Nil THEN req.DateEnd[1] ELSE Today IN
    {x \in Dates : x >= start.day /\ InRange(x, start.tod, end)}

\* the stored entries of the days that pass the filters, by ascending date and
\* in stored order within a day
RECURSIVE PassingOf(_, _, _)
PassingOf(st, req, days) ==
    IF days = {} THEN <<>>
    ELSE LET x == Min(days) IN
         SelectSeq(Stored(st, Date(x, 0)).dayLog.Entries, LAMBDA e : Passes(e, req))
           \o PassingOf(st, req, days \ {x})

C16_LimitCutsTheScan ==
    [][/\ (pc'[Reader] = "SearchLogs_loop" /\ loc'[Reader].arg.Limit > 0) =>
             loc'[Reader].response.TotalCount < loc'[Reader].arg.Limit
       /\ (SearchReturns /\ loc[Reader].skipped = {} /\ ret'.arg.Limit > 0) =>
             LET all == PassingOf(store, ret'.arg, WindowDays(ret'.arg))
                 L == ret'.arg.Limit IN
             /\ Len(ret'.val.Entries) <= L
             /\ ret'.val.Entries = SubSeq(all, 1, IF Len(all) < L THEN Len(all) ELSE L)
             /\ ret'.val.TotalCount = Len(ret'.val.Entries)]_vars

\* a search without filters and with limit 1 returned one entry of a day
\* that holds two
C16_Witness ==
    /\ ret.op = "SearchLogs"
    /\ ret.arg.Limit = 1
    /\ ret.arg.Type = "" /\ ret.arg.Tags = <<>> /\ ret.arg.SearchText = <<>>
    /\ ret.arg.MoodMin = Nil /\ ret.arg.MoodMax = Nil
    /\ ret.arg.DateStart = Nil
    /\ store[1] # NoFile
    /\ ret.val.TotalCount = 1
    /\ Len(ret.val.Entries) = 1

\* the GetDateRange loop of the reader ends in this step and op returns
RangeReturns(op) ==
    pc[Reader] = "GetDateRange_loop" /\ pc'[Reader] = "idle" /\ ret'.op = op

\* the days of a range: from the start, at its time of day, while not after the end
RangeDays(start, end) == {x \in Dates : x >= start.day /\ InRange(x, start.tod, end)}

\* the Day-Log stored for day x
StoredDay(x) == Stored(store, Date(x, 0)).dayLog

\* C17: GetStats over a range without a day that has entries returns
\* entries_per_day = 0.
C17_EntriesPerDayGuarded ==
    [][(/\ RangeReturns("GetStats")
        /\ \A x \in RangeDays(ret'.arg[1], ret'.arg[2]) : StoredDay(x).Entries = <<>>)
          => ret'.val.entries_per_day = Zero]_vars

RECURSIVE SumOfTotals(_)
SumOfTotals(S) ==
    IF S = {} THEN 0
    ELSE LET x == CHOOSE x \in S : TRUE IN
         StoredDay(x).TotalEntries + SumOfTotals(S \ {x})

RECURSIVE SumOfLens(_)
SumOfLens(S) ==
    IF S = {} THEN 0
    ELSE LET x == CHOOSE x \in S : TRUE IN
         Len(StoredDay(x).Entries) + SumOfLens(S \ {x})

\* the product of the denominators of the status averages of the days of S
RECURSIVE Denoms(_)
Denoms(S) ==
    IF S = {} THEN 1
    ELSE LET x == CHOOSE x \in S : TRUE IN
         StoredDay(x).MoodAverage[2] * Denoms(S \ {x})

\* the sum of the status averages of the days of S, times B
RECURSIVE ScaledSum(_, _)
ScaledSum(S, B) ==
    IF S = {} THEN 0
    ELSE LET x == CHOOSE x \in S : TRUE IN
         StoredDay(x).MoodAverage[1] * (B \div StoredDay(x).MoodAverage[2])
           + ScaledSum(S \ {x}, B)

NotAfter(a, b) == a.day < b.day \/ (a.day = b.day /\ a.tod <= b.tod)

\* C19: for every date d, GetWeek(d) returns a week_start that is a Monday,
\* a week_end exactly 6 days after it, and week_start <= d <= week_end.
C19_WeekIsMondayToSunday ==
    ret.op = "GetWeek" =>
        /\ Weekday(ret.val.WeekStart.day) = 1
        /\ ret.val.WeekEnd = Date(ret.val.WeekStart.day + 6, ret.val.WeekStart.tod)
        /\ NotAfter(ret.val.WeekStart, ret.arg)
        /\ NotAfter(ret.arg, ret.val.WeekEnd)
        /\ ret.arg.day = 3 => (ret.val.WeekStart.day = 1 /\ ret.val.WeekEnd.day = 7)

\* Sunday 2025-10-05 gives the week that starts on Monday 2025-09-29
C19_Witness ==
    /\ ret.op = "GetWeek"
    /\ ret.arg.day = 7
    /\ ret.val.WeekStart.day = 1
    /\ ret.val.WeekEnd.day = 7

\* the calendar days of the span of a view: the Monday-to-Sunday week of a
\* date, or the month
SpanDays(op, arg) ==
    IF op = "GetWeek"
    THEN {x \in Dates : (x + 6) \div 7 = (arg.day + 6) \div 7}
    ELSE {x \in Dates : arg = (IF x <= 2 THEN <<2025, 9>> ELSE <<2025, 10>>)}

\* the Day-Logs of the days of S, by ascending date
RECURSIVE DaysOf(_)
DaysOf(S) ==
    IF S = {} THEN <<>>
    ELSE LET x == Min(S) IN <<StoredDay(x)>> \o DaysOf(S \ {x})

\* C20: the view of GetWeek and of GetMonth lists exactly the days of its
\* span that have an entry, by ascending date; its total_entries is the sum
\* of total_entries of the stored Day-Logs of the span, which is the number
\* of entries in the listed days.
C20_ViewOfTheSpan ==
    [][\A op \in {"GetWeek", "GetMonth"} :
          (RangeReturns(op) /\ loc[Reader].skipped = {}) =>
              LET S == SpanDays(op, ret'.arg)
                  listed == {x \in S : Len(StoredDay(x).Entries) > 0} IN
              /\ ret'.val.Days = DaysOf(listed)
              /\ ret'.val.TotalEntries = SumOfTotals(S)
              /\ ret'.val.TotalEntries = SumOfLens(listed)]_vars

\* a week in which day 1 has two entries and day 2 a file without entries
C20_Witness ==
    /\ ret.op = "GetWeek"
    /\ store[2] # NoFile
    /\ Len(ret.val.Days) = 1
    /\ ret.val.Days[1].Date.day = 1
    /\ ret.val.TotalEntries = 2

\* the calendar days from the day of start through the day of end
CalendarDays(start, end) == {x \in Dates : start.day <= x /\ x <= end.day}

\* C21: GetDateRange with a start that is not after the end returns no error
\* and the Day-Logs, by ascending date, of every calendar day from the day
\* of start through the day of end that could be read and has an entry,
\* whatever the time of day of either argument.
C21_RangeIsInclusive ==
    [][(RangeReturns("GetDateRange") /\ NotAfter(ret'.arg[1], ret'.arg[2])) =>
          LET S == CalendarDays(ret'.arg[1], ret'.arg[2]) \ loc[Reader].skipped IN
          /\ ret'.err = NoError
          /\ ret'.val = DaysOf({x \in S : Len(StoredDay(x).Entries) > 0})]_vars

\* C22: a SaveSummary of type "day" that returns success has set the
\* day_summary of the stored Day-Log of the date to the summary text and has
\* left its entries, total_entries and status_average as they were stored;
\* a SaveSummary of any other type returns success and leaves the whole
\* repository unchanged.
C22_SaveSummaryFrame ==
    [][\A p \in Procs :
          /\ (SaveDayReturns(p) /\ loc[p].op = "SaveSummary" /\ ret'.err = NoError) =>
                LET date == loc[p].arg[3]
                    before == Stored(store, date).dayLog
                    after == Stored(store', date).dayLog IN
                /\ loc[p].arg[2] = "day"
                /\ after.DaySummary = loc[p].arg[1]
                /\ after.Entries = before.Entries
                /\ after.TotalEntries = before.TotalEntries
                /\ after.MoodAverage = before.MoodAverage
          /\ (ReturnsAtOnce("SaveSummary") /\ ret'.arg[2] # "day") =>
                (ret'.err = NoError /\ store' = store)
          /\ Proceeds(p, "SaveSummary") => loc'[p].arg[2] = "day"]_vars

\* C23: when a DeleteEntry that removed the only entry of a day writes with
\* success, the file of the day exists and holds a Day-Log with no entry and
\* total_entries = 0; ListDays reports every visited date that has a file,
\* DeleteDay on a date that has a file goes on to the delete when the read
\* is answered, and a file of a day becomes absent only in the step in
\* which a DeleteDay of that date returns success.
C23_OnlyDeleteDayRemovesADay ==
    [][/\ (/\ SaveDayReturns(Writer)
            /\ loc[Writer].op = "DeleteEntry"
            /\ loc[Writer].dayLog.Entries = <<>>
            /\ ret'.err = NoError) =>
              LET date == loc[Writer].arg[2] IN
              /\ store'[getDayFilePath(date)] # NoFile
              /\ Stored(store', date).err = NoError
              /\ Stored(store', date).dayLog.Entries = <<>>
              /\ Stored(store', date).dayLog.TotalEntries = 0
       /\ (/\ pc[Reader] = "ListDays_loop"
            /\ pc'[Reader] = "ListDays_loop"
            /\ loc'[Reader].d # loc[Reader].d
            /\ ListDaysLoop(Reader, FALSE)) =>
              LET x == loc'[Reader].d - 1
                  dates == loc'[Reader].dates IN
              store[x] # NoFile =>
                  /\ Len(dates) = Len(loc[Reader].dates) + 1
                  /\ dates[Len(dates)].day = x
       /\ (ReturnsAtOnce("DeleteDay") /\ DeleteDay(Writer, ret'.arg, FALSE)) =>
              store[getDayFilePath(ret'.arg)] = NoFile
       /\ \A x \in Dates :
              (store[x] # NoFile /\ store'[x] = NoFile) =>
                  /\ ret'.op = "DeleteDay"
                  /\ ret'.err = NoError
                  /\ getDayFilePath(ret'.arg) = x
                  /\ pc[Writer] = "DeleteDay_delete"]_vars

\* a DeleteEntry removed the only entry of day 1, and the file of day 1 is
\* there with a Day-Log that has no entry
C23_Witness ==
    /\ ret.op = "DeleteEntry"
    /\ ret.err = NoError
    /\ store[1] # NoFile
    /\ Stored(store, Date(1, 0)).dayLog.Entries = <<>>
    /\ Stored(store, Date(1, 0)).dayLog.TotalEntries = 0

\* C24: every call of UpdateEntry returns an error within the step of the
\* call, without a remote call, and the repository is the same after it.
C24_UpdateEntryUnsupported ==
    [][/\ \A p \in Procs : ~Proceeds(p, "UpdateEntry")
       /\ ReturnsAtOnce("UpdateEntry") =>
             /\ ret'.err # NoError
             /\ ret'.val = <<>>
             /\ store' = store]_vars

\* UpdateEntry with the id of the stored entry returned an error, and the
\* file still holds the entry as it was created
C24_Witness ==
    /\ ret.op = "UpdateEntry"
    /\ ret.err = NotImplemented
    /\ ret.arg.ID = -1
    /\ store[1] = File(ToJSON(EarlierDay))

\* the bounds of the window of a search request: a missing start is three
\* calendar months before the current time, a missing end the current time
WindowStart(req) == IF req.DateStart # Nil THEN req.DateStart[1] ELSE ThreeMonthsAgo
WindowEnd(req) == IF req.DateEnd # Nil THEN req.DateEnd[1] ELSE Today

\* C25: for every combination of given and missing bounds SearchLogs visits
\* every calendar day from the day of the start through the day of the end:
\* when the loop ends no calendar day of the window is left unvisited, and
\* when every fetch succeeded and the limit is unset or not reached the
\* entries returned are the passing entries of all these days, those of the
\* end day included, by ascending date.
C25_WindowIsInclusive ==
    [][SearchReturns =>
          LET S == CalendarDays(WindowStart(ret'.arg), WindowEnd(ret'.arg)) IN
          /\ ret'.val = loc[Reader].response =>
                {x \in S : x >= loc[Reader].d} = {}
          /\ (/\ loc[Reader].skipped = {}
              /\ (ret'.arg.Limit = 0 \/ ret'.val.TotalCount < ret'.arg.Limit))
                => ret'.val.Entries = PassingOf(store, ret'.arg, S)]_vars

\* the first n entries of es, all of them when n = 0
UpTo(es, n) == IF n = 0 \/ Len(es) < n THEN es ELSE SubSeq(es, 1, n)

\* a day whose fetch failed is fetched in this step of the search
FetchFails ==
    /\ pc[Reader] = "SearchLogs_loop"
    /\ Remaining(loc[Reader]) # {}
    /\ ~SearchLogsLoop(Reader, FALSE)

\* C26: a fetch that fails during SearchLogs does not end the search: the
\* search goes on with the next day, and it returns success with the result
\* of the same search over the repository in which the days that could not
\* be fetched have no entries.
C26_FailedDayIsEmpty ==
    [][/\ FetchFails =>
             /\ pc'[Reader] = "SearchLogs_loop"
             /\ loc'[Reader].response = loc[Reader].response
             /\ loc'[Reader].d = Min(Remaining(loc[Reader])) + 1
       /\ SearchReturns =>
             /\ ret'.err = NoError
             /\ ret'.val.Entries =
                   UpTo(PassingOf(store, ret'.arg,
                                  WindowDays(ret'.arg) \ loc[Reader].skipped),
                        ret'.arg.Limit)
             /\ ret'.val.TotalCount = Len(ret'.val.Entries)]_vars

\* a search without filters over both days, each holding two entries: the
\* fetch of day 1 failed and the two entries of day 2 are returned
C26_Witness ==
    /\ ret.op = "SearchLogs"
    /\ ret.err = NoError
    /\ ret.arg.DateStart = Ptr(Date(1, 0)) /\ ret.arg.DateEnd = Ptr(Date(2, 1))
    /\ ret.arg.Limit = 0
    /\ Len(Stored(store, Date(1, 0)).dayLog.Entries) = 2
    /\ Len(ret.val.Entries) = 2
    /\ ret.val.Entries[1].ID = -13
    /\ ret.val.Entries[2].ID = -14

\* the characters of a path, in the order of their codes
PathChars ==
    <<"-", ".", "/", "0", "1", "2", "3", "4", "5", "6", "7", "8", "9",
      "a", "d", "g", "i", "j", "l", "n", "o", "s", "y">>
CharCode(c) == CHOOSE i \in 1..Len(PathChars) : PathChars[i] = c

\* text a is before text b in lexicographic order
RECURSIVE LexLess(_, _)
LexLess(a, b) ==
    IF b = <<>> THEN FALSE
    ELSE IF a = <<>> THEN TRUE
    ELSE IF Head(a) = Head(b) THEN LexLess(Tail(a), Tail(b))
    ELSE CharCode(Head(a)) < CharCode(Head(b))

\* the number a text of digits stands for
RECURSIVE NumberOf(_)
NumberOf(t) ==
    IF t = <<>> THEN 0
    ELSE 10 * NumberOf(SubSeq(t, 1, Len(t) - 1)) + (CharCode(t[Len(t)]) - CharCode("0"))

\* the day number of a calendar date, counted from the calendar
DayOfCivil(y, m, d) ==
    LET yy == IF m <= 2 THEN y - 1 ELSE y
        era == yy \div 400
        yoe == yy - era * 400
        doy == (153 * (IF m > 2 THEN m - 3 ELSE m + 9) + 2) \div 5 + d - 1 IN
    era * 146097 + yoe * 365 + yoe \div 4 - yoe \div 100 + doy - 719468 - 20360 + 1

\* text is basePath/YYYY/MM/YYYY-MM-DD.json for the calendar date of day x
IsPathOf(text, basePath, x) ==
    LET n == Len(basePath)
        part(i, j) == SubSeq(text, n + i, n + j) IN
    /\ Len(text) = n + 24
    /\ SubSeq(text, 1, n) = basePath
    /\ part(1, 1) = <<"/">> /\ part(6, 6) = <<"/">> /\ part(9, 9) = <<"/">>
    /\ part(14, 14) = <<"-">> /\ part(17, 17) = <<"-">>
    /\ part(20, 24) = <<".", "j", "s", "o", "n">>
    /\ part(2, 5) = part(10, 13)
    /\ part(7, 8) = part(15, 16)
    /\ NumberOf(part(15, 16)) \in 1..12
    /\ NumberOf(part(18, 19)) \in 1..31
    /\ DayOfCivil(NumberOf(part(10, 13)), NumberOf(part(15, 16)),
                  NumberOf(part(18, 19))) = x

\* C27: the path of a date is basePath/YYYY/MM/YYYY-MM-DD.json of its
\* calendar date; two timestamps have the same path exactly when they fall
\* on the same calendar date, and the path of one date is before the path
\* of another in lexicographic order exactly when the date is the earlier.
C27_PathOrderIsDateOrder ==
    (\A p \in Procs : pc[p] = "done") =>
        LET a == loc["p1"]
            b == loc["p2"] IN
        /\ IsPathOf(a.val, a.basePath, a.arg.day)
        /\ IsPathOf(b.val, b.basePath, b.arg.day)
        /\ (a.val = b.val) <=> (a.arg.day = b.arg.day)
        /\ LexLess(a.val, b.val) <=> (a.arg.day < b.arg.day)

\* 2025-09-30 in the morning and 2025-10-01 at midnight: the month changes
\* from 09 to 10 and the path of the earlier date is the earlier path
C27_Witness ==
    /\ pc["p1"] = "done" /\ pc["p2"] = "done"
    /\ loc["p1"].arg = Date(2, 1)
    /\ loc["p2"].arg = Date(3, 0)
    /\ loc["p1"].val = <<"l", "o", "g", "s", "/", "2", "0", "2", "5", "/", "0", "9", "/",
                         "2", "0", "2", "5", "-", "0", "9", "-", "3", "0",
                         ".", "j", "s", "o", "n">>
    /\ LexLess(loc["p1"].val, loc["p2"].val)

\* k is the position of the first entry of es that has the id
IsFirstWith(es, id, k) ==
    /\ k \in 1..Len(es)
    /\ es[k].ID = id
    /\ \A j \in 1..(k - 1) : es[j].ID # id

\* C28: a Day-Log keeps insertion order.  AddEntry puts the new entry last,
\* UpdateEntry puts the given entry at the position of the first entry that
\* has the id, RemoveEntry takes out exactly the first entry that has the
\* id, and all other entries keep their content and their order; without an
\* entry that has the id, UpdateEntry and RemoveEntry leave the entries.
C28_InsertionOrderKept ==
    [][now' = now =>
          LET es == day.Entries
              after == day'.Entries
              found == \E k \in 1..Len(es) : es[k].ID = ret'.id IN
          /\ ret'.op = "AddEntry" =>
                /\ Len(after) = Len(es) + 1
                /\ after[Len(after)] = ret'.entry
                /\ \A j \in 1..Len(es) : after[j] = es[j]
          /\ ret'.op = "UpdateEntry" =>
                /\ ret'.ok = found
                /\ Len(after) = Len(es)
                /\ \A k \in 1..Len(es) :
                      after[k] = IF IsFirstWith(es, ret'.id, k) THEN ret'.entry ELSE es[k]
          /\ ret'.op = "RemoveEntry" =>
                /\ ret'.ok = found
                /\ ~found => after = es
                /\ \A k \in 1..Len(es) :
                      IsFirstWith(es, ret'.id, k) =>
                          /\ Len(after) = Len(es) - 1
                          /\ \A j \in 1..(k - 1) : after[j] = es[j]
                          /\ \A j \in k..Len(after) : after[j] = es[j + 1]]_vars

\* of two entries with the same id RemoveEntry took one out: one entry with
\* the id is left
C28_Witness ==
    /\ ret.op = "RemoveEntry"
    /\ ret.ok
    /\ Len(day.Entries) = 1
    /\ day.Entries[1].ID = ret.id

\* C29: a CreateEntry or DeleteEntry that writes over the stored Day-Log of
\* its date leaves the day_summary and created_at of that Day-Log as they
\* were stored, and the stored day_summary of a day changes only in a step
\* of SaveSummary, of a direct SaveDay or of DeleteDay.
C29_SummaryFrame ==
    [][/\ \A p \in Procs :
            (/\ SaveDayReturns(p)
             /\ loc[p].op \in {"CreateEntry", "DeleteEntry"}
             /\ ret'.err = NoError
             /\ store[getDayFilePath(loc[p].dayLog.Date)] # NoFile) =>
               LET before == Stored(store, loc[p].dayLog.Date).dayLog
                   after == Stored(store', loc[p].dayLog.Date).dayLog IN
               /\ after.DaySummary = before.DaySummary
               /\ after.CreatedAt = before.CreatedAt
       /\ \A x \in Dates :
            StoredDay(x).DaySummary # Stored(store', Date(x, 0)).dayLog.DaySummary =>
               ret'.op \in {"SaveSummary", "SaveDay", "DeleteDay"}]_vars

\* C30: when the file a CreateEntry, DeleteEntry or SaveSummary read has
\* been removed by a DeleteDay that returned success, the write of the
\* operation fails with a StorageError and the date still has no file.
C30_DeletedDayStaysDeleted ==
    [][\A p \in Procs :
          (/\ SaveDayReturns(p)
           /\ loc[p].op \in ReadModifyWrite
           /\ loc[p].read # NoFile
           /\ store[getDayFilePath(loc[p].dayLog.Date)] = NoFile
           /\ ret.op = "DeleteDay"
           /\ ret.err = NoError)
              => /\ ret'.err.kind = "StorageError"
                 /\ store'[getDayFilePath(loc[p].dayLog.Date)] = NoFile]_vars

====
